---- MODULE Spec2Model ----
(***************************************************************************)
(* moleculib/protein/dataset.py: ProteinDataset.                           *)
(*                                                                         *)
(*   SpecExtract  _extract_datum_row applied to one ProteinDatum           *)
(*   Spec         ProteinDataset.build over a list of PDB ids, sequential  *)
(*                (max_workers = 1) or over process_map's worker pool      *)
(*   SpecView     ProteinDataset.__init__ / __len__ / __getitem__          *)
(*                                                                         *)
(* Python values: an optional value is <<>> (None / NaN) or <<v>>; a float *)
(* resolution is kept in tenths (1.5 -> 15); a str is a sequence of        *)
(* one-character strings where the code iterates over it.                  *)
(***************************************************************************)
EXTENDS Integers, Sequences, FiniteSets, TLC

VARIABLES
    \* ---- _extract_datum_row
    datum,          \* the argument, a ProteinDatum
    extracted,      \* the call's outcome, NotCalled before it
    \* ---- build
    pdb_ids,        \* argument: the list of identifiers
    max_workers,    \* argument
    save,           \* argument
    pc,             \* "idle" | "map" | "pool" | "done" | "raised"
    raised,         \* the exception build() raised to its caller, "" if none
    rows,           \* sequential: list(map(extractor, pdb_ids)) so far
    futures,        \* pool: one future per chunk, in submission order
    worker,         \* pool: what each worker process is running
    collected,      \* pool: results the main process has taken from the iterator
    stored,         \* save_path: idcode -> record persisted by fetch_pdb_id
    printed,        \* what was print()ed: the identifiers reported
    started,        \* number of fetch_pdb_id calls begun
    cancelled,      \* a KeyboardInterrupt was caught at line 131
    metadata,       \* the DataFrame build() assembled, <<>> before
    metadata_h5,    \* save_path/metadata.h5, <<>> if not written
    \* ---- the view
    v_in,           \* constructor arguments
    v_state,        \* "idle" | "new" | "ok" | "AttributeError"
    v_metadata,     \* self.metadata
    v_attrs,        \* self.attrs
    v_files,        \* identifiers with a <id>.pdb under base_path
    v_get           \* outcome of the last __getitem__ call

extractVars == <<datum, extracted>>
buildVars == <<pdb_ids, max_workers, save, pc, raised, rows, futures, worker,
               collected, stored, printed, started, cancelled, metadata,
               metadata_h5>>
viewVars == <<v_in, v_state, v_metadata, v_attrs, v_files, v_get>>
vars == <<extractVars, buildVars, viewVars>>

\* ------------------------------------------------------------------ bounds
MaxRes == 3         \* residues per record in SpecExtract
MaxLen == 3         \* identifiers in a short pdb_ids list
MaxTail == 1        \* identifiers after the first full chunk of a long list
MaxWorkers == 2     \* largest max_workers
MaxRows == 3        \* rows of a view's input table

\* --------------------------------------------------------------- constants
MAX_COMPLEX_SIZE == 32
chunksize == 50
UNK_TOKEN == "UNK"
None == <<>>
Some(x) == <<x>>

\* ------------------------------------------------------------------ helpers
RECURSIVE SeqSum(_)
SeqSum(s) == IF s = <<>> THEN 0 ELSE Head(s) + SeqSum(Tail(s))

RECURSIVE SeqMax(_)
SeqMax(s) == IF Len(s) = 1 THEN s[1]
             ELSE LET m == SeqMax(Tail(s)) IN IF s[1] >= m THEN s[1] ELSE m

Range(s) == {s[i] : i \in DOMAIN s}
Count(s, v) == Cardinality({i \in DOMAIN s : s[i] = v})
SeqsUpTo(S, n) == UNION {[1..k -> S] : k \in 0..n}

\* A call's outcome: a value, or the exception it raised.
Returned(v) == [tag |-> "return", val |-> Some(v), exc |-> ""]
ReturnedNone == [tag |-> "return", val |-> None, exc |-> ""]
Raised(e) == [tag |-> "raise", val |-> None, exc |-> e]
NotCalled == [tag |-> "none", val |-> None, exc |-> ""]

\* ------------------------------------------------- PDB_METADATA_FIELDS
\* The columns of the empty DataFrame build() starts from.
ChainColumns(n) == {<<"num_res", c>> : c \in 0..(n - 1)}
PDB_METADATA_FIELDS ==
    {<<"idcode">>, <<"num_res">>, <<"standard">>, <<"resolution">>}
        \cup ChainColumns(MAX_COMPLEX_SIZE)

\* ------------------------------------------------- _extract_datum_row
\* A row is the dict `metrics`: per[c + 1] is metrics["num_res_<c>"], set for
\* every chain in range(np.max(datum.chain_token)).
IsStandard(d) == ~(\A i \in DOMAIN d.residue_token : d.residue_token[i] = UNK_TOKEN)

ExtractDatumRow(d) ==
    IF d.chain_token = <<>>
    THEN Raised("ValueError")       \* np.max of an empty array
    ELSE Returned([idcode |-> d.idcode,
                   standard |-> IsStandard(d),
                   resolution |-> d.resolution,
                   num_res |-> Len(d.sequence),
                   per |-> [k \in 1..SeqMax(d.chain_token) |->
                               Count(d.chain_token, k - 1)]])

\* The columns of a row's one-line frame, and a cell of it (NaN when absent).
RowColumns(r) ==
    {<<"idcode">>, <<"num_res">>, <<"standard">>, <<"resolution">>}
        \cup ChainColumns(Len(r.per))
NumRes(r, c) == IF c + 1 \in DOMAIN r.per THEN Some(r.per[c + 1]) ELSE None

\* ---- SpecExtract
ChainVals == {0, 1, 2, MAX_COMPLEX_SIZE, MAX_COMPLEX_SIZE + 1}
ExtractInputs ==
    {[idcode |-> "A1", resolution |-> Some(15), sequence |-> t,
      residue_token |-> t, chain_token |-> c] :
        <<t, c>> \in UNION {[1..n -> {UNK_TOKEN, "ALA"}] \X [1..n -> ChainVals] :
                             n \in 1..MaxRes}}

NoDatum == [idcode |-> "", resolution |-> None, sequence |-> <<>>,
            residue_token |-> <<>>, chain_token |-> <<>>]

Extract ==
    /\ extracted = NotCalled
    /\ extracted' = ExtractDatumRow(datum)
    /\ UNCHANGED <<datum, buildVars, viewVars>>

BuildIdle ==
    /\ pdb_ids = <<>> /\ max_workers = 1 /\ save = FALSE /\ pc = "idle"
    /\ raised = "" /\ rows = <<>> /\ futures = <<>> /\ worker = <<>>
    /\ collected = 0 /\ stored = {} /\ printed = <<>> /\ started = 0
    /\ cancelled = FALSE /\ metadata = None /\ metadata_h5 = None

ViewIdle ==
    /\ v_in = <<>> /\ v_state = "idle" /\ v_metadata = <<>> /\ v_attrs = <<>>
    /\ v_files = {} /\ v_get = <<>>

ExtractIdle == datum = NoDatum /\ extracted = NotCalled

InitExtract ==
    /\ datum \in ExtractInputs
    /\ extracted = NotCalled
    /\ BuildIdle
    /\ ViewIdle

SpecExtract == InitExtract /\ [][Extract]_vars

\* ------------------------------------------- ProteinDatum.fetch_pdb_id
\* The remote source, one fixed answer per identifier: a record (which
\* fetch_pdb_id also writes under save_path) or the exception raised.
Datum(id, toks, chains, res) ==
    [idcode |-> id, resolution |-> res, sequence |-> toks,
     residue_token |-> toks, chain_token |-> chains]

Ids == {"A1", "A2", "BAD", "NET", "EMP", "ODD", "BRK"}

FetchPdbId(id) ==
    CASE id = "A1" -> Returned(Datum(id, <<"ALA", "ALA", "ALA">>, <<0, 0, 1>>, Some(15)))
      [] id = "A2" -> Returned(Datum(id, <<"ALA", UNK_TOKEN>>, <<0, 0>>, Some(20)))
      [] id = "EMP" -> Returned(Datum(id, <<>>, <<>>, None))
      \* a record that breaks the length invariant: residues but no chain tokens
      [] id = "BRK" -> Returned([Datum(id, <<"ALA">>, <<>>, Some(31))
                                    EXCEPT !.sequence = <<"ALA">>])
      [] id = "BAD" -> Raised("ValueError")
      [] id = "NET" -> Raised("RequestError")
      [] OTHER -> Raised("OSError")

\* What one call of fetch_pdb_id can do: answer, or be interrupted by the user.
FetchOutcomes(id) == {FetchPdbId(id), Raised("KeyboardInterrupt")}

\* ------------------------------------------- _maybe_fetch_and_extract
\* Mutant: the remote-request error is not among the exceptions caught.
CaughtContentOnly(out) ==
    out.tag = "raise" /\ out.exc \in {"ValueError", "IndexError"}

Caught(out) ==
    out.tag = "raise" /\ out.exc \in {"ValueError", "IndexError", "RequestError"}

MaybeFetchAndExtract(out) ==
    IF out.tag = "raise"
    THEN IF out.exc = "KeyboardInterrupt" THEN Raised("SystemExit")   \* exit()
         ELSE IF Caught(out) THEN ReturnedNone
         ELSE Raised(out.exc)
    ELSE IF Len(out.val[1].sequence) = 0 THEN ReturnedNone
         ELSE ExtractDatumRow(out.val[1])

\* The side effects of the call on save_path, stdout and the flags observed.
Persist(st, id, out) ==
    IF out.tag = "return"
    THEN {p \in st : p[1] # id} \cup {<<id, out.val[1]>>}
    ELSE st
\* Mutant: a caught error is not printed.
ReportNothing(pr, id, out) == pr

Report(pr, id, out) == IF Caught(out) THEN Append(pr, id) ELSE pr

\* ------------------------------------------------------------- build
RECURSIVE FilterNone(_)
FilterNone(rs) ==
    IF rs = <<>> THEN <<>>
    ELSE IF Head(rs) = None THEN FilterNone(Tail(rs))
    ELSE <<Head(rs)[1]>> \o FilterNone(Tail(rs))

\* pd.concat((metadata, *rows), axis=0): the union of the columns, the rows in order.
Concat(rs) ==
    [columns |-> PDB_METADATA_FIELDS \cup UNION {RowColumns(rs[i]) : i \in DOMAIN rs},
     rows |-> rs]

\* process_map(extractor, pdb_ids, chunksize=50): the chunks, in order.
NumChunks(n) == (n + chunksize - 1) \div chunksize
ChunkItems(ids, c) ==
    SubSeq(ids, (c - 1) * chunksize + 1,
           IF c * chunksize < Len(ids) THEN c * chunksize ELSE Len(ids))

Pending == [state |-> "pending", result |-> <<>>, exc |-> ""]
Idle == [chunk |-> 0, acc |-> <<>>]

\* Mutant: a chunk's result keeps only the result of its last item.
FutureDoneLastOnly(acc, exc) ==
    [state |-> "finished",
     result |-> IF exc = "" THEN SubSeq(acc, Len(acc), Len(acc)) ELSE <<>>,
     exc |-> exc]

\* The future of a chunk after its call returned `acc` or raised `exc`.
FutureDone(acc, exc) ==
    [state |-> "finished", result |-> IF exc = "" THEN acc ELSE <<>>, exc |-> exc]

\* The identifier lists: every short list, and lists longer than one chunk.
ShortLists == SeqsUpTo(Ids, MaxLen)
LongLists ==
    {[i \in 1..chunksize |-> "A1"] \o t : t \in SeqsUpTo(Ids, MaxTail) \ {<<>>}}

InitBuild ==
    /\ pdb_ids \in ShortLists \cup LongLists
    /\ max_workers \in 1..MaxWorkers
    /\ save \in BOOLEAN
    /\ pc = IF max_workers > 1 THEN "pool" ELSE "map"
    /\ raised = ""
    /\ rows = <<>>
    /\ futures = IF max_workers > 1
                 THEN [c \in 1..NumChunks(Len(pdb_ids)) |-> Pending]
                 ELSE <<>>
    /\ worker = IF max_workers > 1 THEN [w \in 1..max_workers |-> Idle] ELSE <<>>
    /\ collected = 0
    /\ stored = {}
    /\ printed = <<>>
    /\ started = 0
    /\ cancelled = FALSE
    /\ metadata = None
    /\ metadata_h5 = None
    /\ ExtractIdle
    /\ ViewIdle

Effects(id, out) ==
    /\ stored' = Persist(stored, id, out)
    /\ printed' = Report(printed, id, out)
    /\ started' = started + 1
    /\ cancelled' = (cancelled \/ (out.tag = "raise" /\ out.exc = "KeyboardInterrupt"))

\* max_workers = 1: one item of list(map(extractor, pdb_ids)).
MapStep ==
    /\ pc = "map"
    /\ Len(rows) < Len(pdb_ids)
    /\ LET id == pdb_ids[Len(rows) + 1] IN
       \E out \in FetchOutcomes(id) :
         LET r == MaybeFetchAndExtract(out) IN
           /\ Effects(id, out)
           /\ IF r.tag = "raise"
              THEN pc' = "raised" /\ raised' = r.exc /\ rows' = rows
              ELSE pc' = pc /\ raised' = raised /\ rows' = Append(rows, r.val)
    /\ UNCHANGED <<pdb_ids, max_workers, save, futures, worker, collected,
                   metadata, metadata_h5, extractVars, viewVars>>

\* max_workers > 1: an idle worker process takes the next chunk off the call queue.
WorkerTake(w) ==
    /\ worker[w].chunk = 0
    /\ \E c \in DOMAIN futures :
         /\ futures[c].state = "pending"
         /\ \A b \in 1..(c - 1) : futures[b].state # "pending"
         /\ futures' = [futures EXCEPT ![c].state = "running"]
         /\ worker' = [worker EXCEPT ![w] = [chunk |-> c, acc |-> <<>>]]
    /\ UNCHANGED <<pdb_ids, max_workers, save, pc, raised, rows, collected,
                   stored, printed, started, cancelled, metadata, metadata_h5,
                   extractVars, viewVars>>

\* A worker runs the extractor on the next item of its chunk; the chunk's call
\* ends with its last item, or with the first exception (SystemExit included).
WorkerStep(w) ==
    /\ worker[w].chunk # 0
    /\ LET c == worker[w].chunk
           items == ChunkItems(pdb_ids, c)
           id == items[Len(worker[w].acc) + 1] IN
       \E out \in FetchOutcomes(id) :
         LET r == MaybeFetchAndExtract(out)
             acc == Append(worker[w].acc, r.val) IN
           /\ Effects(id, out)
           /\ IF r.tag = "raise"
              THEN /\ futures' = [futures EXCEPT ![c] = FutureDone(<<>>, r.exc)]
                   /\ worker' = [worker EXCEPT ![w] = Idle]
              ELSE IF Len(acc) = Len(items)
              THEN /\ futures' = [futures EXCEPT ![c] = FutureDone(acc, "")]
                   /\ worker' = [worker EXCEPT ![w] = Idle]
              ELSE /\ futures' = futures
                   /\ worker' = [worker EXCEPT ![w].acc = acc]
    /\ UNCHANGED <<pdb_ids, max_workers, save, pc, raised, rows, collected,
                   metadata, metadata_h5, extractVars, viewVars>>

\* The main process takes the next chunk's result, in submission order; an
\* exception is raised there, and the futures not yet started are cancelled.
Collect ==
    /\ pc = "pool"
    /\ collected < Len(futures)
    /\ futures[collected + 1].state = "finished"
    /\ LET f == futures[collected + 1] IN
         IF f.exc = ""
         THEN /\ rows' = rows \o f.result
              /\ collected' = collected + 1
              /\ UNCHANGED <<pc, raised, futures>>
         ELSE /\ pc' = "raised"
              /\ raised' = f.exc
              /\ futures' = [c \in DOMAIN futures |->
                               IF futures[c].state = "pending"
                               THEN [futures[c] EXCEPT !.state = "cancelled"]
                               ELSE futures[c]]
              /\ UNCHANGED <<rows, collected>>
    /\ UNCHANGED <<pdb_ids, max_workers, save, worker, stored, printed, started,
                   cancelled, metadata, metadata_h5, extractVars, viewVars>>

\* Lines 173-179: drop the None results, concatenate, write metadata.h5, return
\* the view (its construction is Construct of SpecView).
Finish ==
    /\ \/ pc = "map" /\ Len(rows) = Len(pdb_ids)
       \/ pc = "pool" /\ collected = Len(futures)
    /\ metadata' = Some(Concat(FilterNone(rows)))
    /\ metadata_h5' = IF save THEN metadata' ELSE None
    /\ pc' = "done"
    /\ UNCHANGED <<pdb_ids, max_workers, save, raised, rows, futures, worker,
                   collected, stored, printed, started, cancelled, extractVars,
                   viewVars>>

Next ==
    \/ MapStep
    \/ \E w \in DOMAIN worker : WorkerTake(w)
    \/ \E w \in DOMAIN worker : WorkerStep(w)
    \/ Collect
    \/ Finish

Spec == InitBuild /\ [][Next]_vars

\* ------------------------------------------------ ProteinDataset.__init__
\* A Python str or list argument. Iterating a list yields its items, iterating
\* a str yields its characters.
PyStr(s) == [kind |-> "str", s |-> s, items |-> <<>>]
PyList(l) == [kind |-> "list", s |-> "", items |-> l]

CharsOf(s) ==
    CASE s = "all" -> <<"a", "l", "l">>
      [] s = "idcode" -> <<"i", "d", "c", "o", "d", "e">>
      [] s = "atom_mask" -> <<"a", "t", "o", "m", "_", "m", "a", "s", "k">>
      [] OTHER -> <<>>

Iter(v) == IF v.kind = "list" THEN v.items ELSE CharsOf(v.s)

protein_attrs ==
    <<"idcode", "resolution", "residue_token", "residue_index", "residue_token",
      "residue_mask", "chain_token", "atom_token", "atom_coord", "atom_mask">>

\* Lines 94-100: the exception raised, "" if none, and self.attrs.
AttrsError(attrs) ==
    IF attrs = PyStr("all") THEN ""
    ELSE IF \E i \in DOMAIN Iter(attrs) : Iter(attrs)[i] \notin Range(protein_attrs)
    THEN "AttributeError" ELSE ""
SelfAttrs(attrs) == IF attrs = PyStr("all") THEN PyList(protein_attrs) ELSE attrs

\* Lines 64-75: a comparison with NaN is False, so a row without the cell is dropped.
\* Mutant: the resolution ceiling is exclusive.
PassResolutionStrict(r, mx) ==
    mx = None \/ (r.resolution # None /\ r.resolution[1] < mx[1])

PassResolution(r, mx) == mx = None \/ (r.resolution # None /\ r.resolution[1] <= mx[1])
PassMinLength(r, mn) == mn = None \/ (NumRes(r, 0) # None /\ NumRes(r, 0)[1] >= mn[1])
PassMaxLength(r, mx) == mx = None \/ (NumRes(r, 0) # None /\ NumRes(r, 0)[1] <= mx[1])

RECURSIVE Select(_, _, _)
Select(t, k, a) ==
    IF t = <<>> THEN <<>>
    ELSE LET keep == CASE k = "res" -> PassResolution(Head(t), a)
                       [] k = "min" -> PassMinLength(Head(t), a)
                       [] OTHER -> PassMaxLength(Head(t), a)
         IN (IF keep THEN <<Head(t)>> ELSE <<>>) \o Select(Tail(t), k, a)

Filtered(in) ==
    Select(Select(Select(in.table, "res", in.max_resolution),
                  "min", in.min_sequence_length),
           "max", in.max_sequence_length)

\* Line 78, sample(frac=1).reset_index(drop=True): the rows in any order.
Shuffles(t) ==
    {[i \in DOMAIN t |-> t[p[i]]] :
        p \in {q \in [DOMAIN t -> DOMAIN t] : \A i, j \in DOMAIN t : q[i] = q[j] => i = j}}

\* ---------------------------------------------- __len__ and __getitem__
ViewLen(md) == Len(md)

\* Mutant: a negative position is out of bounds.
IlocFromStartOnly(md, idx) ==
    IF idx >= 0 /\ idx < Len(md) THEN Some(md[idx + 1]) ELSE None

\* metadata.iloc[idx]: the position, counted from the end when idx is negative.
Iloc(md, idx) ==
    IF idx >= 0 /\ idx < Len(md) THEN Some(md[idx + 1])
    ELSE IF idx < 0 /\ idx >= 0 - Len(md) THEN Some(md[Len(md) + idx + 1])
    ELSE None

\* The outcome of self[idx], and whether ProteinDatum.from_filepath was called.
GetItem(md, files, transform, idx) ==
    LET row == Iloc(md, idx) IN
    IF row = None
    THEN [out |-> Raised("IndexError"), loaded |-> FALSE]
    ELSE IF row[1].idcode \notin files
    THEN [out |-> Raised("FileNotFoundError"), loaded |-> TRUE]
    ELSE [out |-> Returned([idcode |-> row[1].idcode,
                            transformed |-> transform # None]),
          loaded |-> TRUE]

\* ---- SpecView
ViewIds == <<"A1", "A2", "A3", "A4">>
Cells == {<<Some(15), <<3, 1>>>>, <<Some(20), <<5>>>>, <<Some(31), <<6, 2, 2>>>>,
          <<None, <<>>>>}
ViewRow(i, cell) ==
    [idcode |-> ViewIds[i], standard |-> TRUE, resolution |-> cell[1],
     num_res |-> SeqSum(cell[2]) + 1, per |-> cell[2]]
Tables == UNION {{[i \in 1..n |-> ViewRow(i, f[i])] : f \in [1..n -> Cells]} :
                  n \in 0..MaxRows}
AttrInputs == {PyStr("all"), PyStr("idcode"), PyList(<<"idcode", "atom_mask">>),
               PyList(<<"idcode", "bogus">>)}
GetIndices == (0 - MaxRows - 1)..(MaxRows + 1)

NoGet == [idx |-> None, out |-> NotCalled, loaded |-> FALSE]

InitView ==
    \* table: the metadata argument, or else what metadata.h5 under base_path holds
    /\ v_in \in [table : Tables,
                 max_resolution : {None, Some(20)},
                 min_sequence_length : {None, Some(5)},
                 max_sequence_length : {None, Some(5)},
                 attrs : AttrInputs,
                 transform : {None, Some("transform")}]
    /\ v_files \in {Range(ViewIds), Range(ViewIds) \ {"A1"}}
    /\ v_state = "new"
    /\ v_metadata = <<>>
    /\ v_attrs = <<>>
    /\ v_get = NoGet
    /\ ExtractIdle
    /\ BuildIdle

Construct ==
    /\ v_state = "new"
    /\ v_metadata' \in Shuffles(Filtered(v_in))
    /\ IF AttrsError(v_in.attrs) = ""
       THEN v_state' = "ok" /\ v_attrs' = SelfAttrs(v_in.attrs)
       ELSE v_state' = AttrsError(v_in.attrs) /\ v_attrs' = v_attrs
    /\ UNCHANGED <<v_in, v_files, v_get, extractVars, buildVars>>

Get(idx) ==
    /\ v_state = "ok"
    /\ LET g == GetItem(v_metadata, v_files, v_in.transform, idx) IN
         v_get' = [idx |-> Some(idx), out |-> g.out, loaded |-> g.loaded]
    /\ UNCHANGED <<v_in, v_state, v_metadata, v_attrs, v_files, extractVars,
                   buildVars>>

NextView == Construct \/ \E idx \in GetIndices : Get(idx)

SpecView == InitView /\ [][NextView]_vars

\* ======================================================== properties
IdCodes(t) == [i \in DOMAIN t |-> t[i].idcode]
Table == metadata[1].rows

\* The fetch outcomes the build tolerates, as the specification names them.
ToleratedErrors == {"ValueError", "IndexError", "RequestError"}
Answer(id) == FetchPdbId(id)
FetchedRows(id) == Answer(id).tag = "return" /\ Len(Answer(id).val[1].sequence) > 0
WellFormed(id) ==
    Answer(id).tag = "return"
        /\ Len(Answer(id).val[1].chain_token) = Len(Answer(id).val[1].sequence)
Skipped(id) == Answer(id).tag = "raise" /\ Answer(id).exc \in ToleratedErrors

RECURSIVE Surviving(_)
Surviving(ids) ==
    IF ids = <<>> THEN <<>>
    ELSE (IF FetchedRows(Head(ids)) THEN <<Head(ids)>> ELSE <<>>)
             \o Surviving(Tail(ids))

\* C1: when every identifier's fetch either succeeds with a well-formed record
\* (empty or not) or fails with a content or remote-request error, and nobody
\* interrupts, build() never raises, always can go on until it returns, and the
\* table it returns has exactly the identifiers fetched with a non-empty
\* sequence, one row per occurrence in the list.
C1_BuildToleratesFailures ==
    ((\A i \in DOMAIN pdb_ids : WellFormed(pdb_ids[i]) \/ Skipped(pdb_ids[i]))
        /\ ~cancelled)
    => /\ pc # "raised"
       /\ pc \in {"map", "pool"} => ENABLED Next
       /\ pc = "done" => IdCodes(Table) = Surviving(pdb_ids)

C1_Witness ==
    /\ pc = "done"
    /\ max_workers = 1
    /\ pdb_ids = <<"A1", "A2", "BAD">>
    /\ IdCodes(Table) = <<"A1", "A2">>
    /\ printed = <<"BAD">>

\* C2: in the table build() returns no two rows have the same identifier,
\* whatever the identifier list, repeated identifiers included.
C2_UniqueIdentifiers ==
    pc = "done" =>
        \A i, j \in DOMAIN Table : Table[i].idcode = Table[j].idcode => i = j

\* C3: for a record whose chain tokens are exactly 0..k-1 (1 <= k <=
\* MAX_COMPLEX_SIZE), the extracted row has a count for every chain c in
\* 0..k-1, equal to the number of residues of chain c, and the counts add up
\* to the number of residues.
Contiguous(d) ==
    /\ d.chain_token # <<>>
    /\ Range(d.chain_token) = 0..SeqMax(d.chain_token)
    /\ SeqMax(d.chain_token) + 1 <= MAX_COMPLEX_SIZE
    /\ Len(d.chain_token) = Len(d.sequence)

C3_PerChainCounts ==
    (extracted.tag # "none" /\ Contiguous(datum))
    => /\ extracted.tag = "return"
       /\ \A c \in 0..SeqMax(datum.chain_token) :
            NumRes(extracted.val[1], c) = Some(Count(datum.chain_token, c))
       /\ SeqSum(extracted.val[1].per) = Len(datum.sequence)

\* C4: a record with a chain index at or beyond MAX_COMPLEX_SIZE makes the
\* extraction fail with an error, and no extracted row has a column outside
\* PDB_METADATA_FIELDS.
C4_OversizeRejected ==
    extracted.tag # "none"
    => /\ SeqMax(datum.chain_token) >= MAX_COMPLEX_SIZE => extracted.tag = "raise"
       /\ extracted.tag = "return" =>
            RowColumns(extracted.val[1]) \subseteq PDB_METADATA_FIELDS

\* C5: the rows of a constructed view are exactly the input rows with
\* resolution <= max_resolution and min <= num_res_0 <= max (inclusive, an
\* absent threshold not constraining, an absent cell not satisfying), and
\* len() is their number.
Within(cell, lo, hi) ==
    /\ lo = None \/ (cell # None /\ lo[1] <= cell[1])
    /\ hi = None \/ (cell # None /\ cell[1] <= hi[1])
Passes(r) ==
    /\ Within(r.resolution, None, v_in.max_resolution)
    /\ Within(NumRes(r, 0), v_in.min_sequence_length, v_in.max_sequence_length)
Passing == {i \in DOMAIN v_in.table : Passes(v_in.table[i])}

C5_FilterExact ==
    v_state = "ok"
    => /\ Range(v_metadata) = {v_in.table[i] : i \in Passing}
       /\ ViewLen(v_metadata) = Cardinality(Passing)

C5_Witness ==
    /\ v_state = "ok"
    /\ [i \in DOMAIN v_in.table |-> v_in.table[i].resolution]
          = <<Some(15), Some(20), Some(31)>>
    /\ v_in.max_resolution = Some(20)
    /\ v_in.min_sequence_length = None
    /\ v_in.max_sequence_length = Some(5)
    /\ IdCodes(v_metadata) = <<"A2", "A1">>
    /\ ViewLen(v_metadata) = 2

\* C6 as claimed: self[i] raises no IndexError for 0 <= i < len(), and raises
\* IndexError without loading a record for every other integer i.
C6_BoundsAsClaimed ==
    v_get.idx # None
    => LET i == v_get.idx[1]
           n == ViewLen(v_metadata) IN
         IF 0 <= i /\ i < n
         THEN v_get.out.exc # "IndexError"
         ELSE v_get.out = Raised("IndexError") /\ ~v_get.loaded

\* C6 amended: self[i] raises no IndexError for -len() <= i < len(), loading
\* the record of row i (row len() + i for a negative i), and raises IndexError
\* without loading a record for i >= len() and for i < -len().
C6_BoundsWithNegativeIndex ==
    v_get.idx # None
    => LET i == v_get.idx[1]
           n == ViewLen(v_metadata)
           k == IF i < 0 THEN n + i ELSE i IN
         IF 0 - n <= i /\ i < n
         THEN /\ v_get.out.exc # "IndexError"
              /\ v_get.loaded
              /\ v_get.out.tag = "return" =>
                    v_get.out.val[1].idcode = v_metadata[k + 1].idcode
         ELSE v_get.out = Raised("IndexError") /\ ~v_get.loaded

C6_Witness ==
    /\ v_state = "ok"
    /\ ViewLen(v_metadata) = 2
    /\ v_get.idx = Some(0 - 1)
    /\ v_get.out.tag = "return"
    /\ v_get.out.val[1].idcode = v_metadata[2].idcode
    /\ v_get.loaded

\* C7: the constructor succeeds exactly when every requested attribute is a
\* recognized one, the request being a list of names or one name; it raises
\* AttributeError otherwise.
Requested(a) ==
    IF a = PyStr("all") THEN Range(protein_attrs)
    ELSE IF a.kind = "str" THEN {a.s}
    ELSE Range(a.items)
Recognized ==
    {"idcode", "resolution", "residue_token", "residue_index", "residue_mask",
     "chain_token", "atom_token", "atom_coord", "atom_mask"}

C7_AttrsValidated ==
    v_state # "new"
    => IF Requested(v_in.attrs) \subseteq Recognized
       THEN v_state = "ok"
       ELSE v_state = "AttributeError"

\* C8: once a KeyboardInterrupt has been caught by a fetch, no further fetch
\* begins, build() does not return, and every persisted record stays as it is.
C8_CancellationHalts ==
    [][cancelled => /\ started' = started
                    /\ pc' # "done"
                    /\ stored \subseteq stored']_vars

\* C9 as claimed: only a cancellation stops build() before every identifier
\* has been processed.
C9_OnlyCancellationAborts ==
    pc = "raised" => raised = "SystemExit"

\* C9 amended: a ValueError, IndexError or RequestError of one identifier's
\* fetch is reported, the identifier is left out and the others are still
\* processed; build() stops early only for a cancellation, for a fetch error
\* of another kind or for an error of the row extraction, which it raises to
\* the caller.
Propagates(id, e) ==
    \/ Answer(id).tag = "raise" /\ Answer(id).exc \notin ToleratedErrors
          /\ e = Answer(id).exc
    \/ FetchedRows(id) /\ ~WellFormed(id) /\ e = "ValueError"

C9_FetchErrorsIsolated ==
    /\ pc = "raised" =>
          \/ raised = "SystemExit" /\ cancelled
          \/ \E i \in DOMAIN pdb_ids : Propagates(pdb_ids[i], raised)
    /\ pc = "done" =>
          /\ started = Len(pdb_ids)
          /\ \A i \in DOMAIN pdb_ids :
               Skipped(pdb_ids[i]) =>
                  /\ pdb_ids[i] \in Range(printed)
                  /\ pdb_ids[i] \notin Range(IdCodes(Table))
          /\ \A i \in DOMAIN pdb_ids :
               FetchedRows(pdb_ids[i]) => pdb_ids[i] \in Range(IdCodes(Table))

C9_Witness ==
    /\ pc = "done"
    /\ pdb_ids = <<"BAD", "NET", "A1">>
    /\ printed = <<"BAD", "NET">>
    /\ IdCodes(Table) = <<"A1">>

\* C10: a build over the worker pool that returns has the table the sequential
\* build has for the same list: the rows of list(map(extractor, pdb_ids))
\* without the None ones, in the list's order, whatever the order in which the
\* workers ran and finished.
SequentialRows(ids) ==
    [i \in DOMAIN ids |-> MaybeFetchAndExtract(FetchPdbId(ids[i]))]

C10_PoolMatchesSequential ==
    (pc = "done" /\ max_workers > 1)
    => /\ \A i \in DOMAIN pdb_ids : SequentialRows(pdb_ids)[i].tag = "return"
       /\ metadata = Some(Concat(FilterNone(
             [i \in DOMAIN pdb_ids |-> SequentialRows(pdb_ids)[i].val])))

C10_Witness ==
    /\ pc = "done"
    /\ max_workers > 1
    /\ Len(futures) = 2
    /\ pdb_ids[chunksize + 1] = "A2"
    /\ Len(Table) = chunksize + 1
    /\ Table[chunksize + 1].idcode = "A2"
====
